---------------------------- MODULE Spec2Model ----------------------------
(***************************************************************************)
(* Model of the interval computations of the notebook                      *)
(* course2/2.5_Confidence_Intervals_Differences_Population_Parameters:     *)
(* the standard error of a proportion and of a mean, the variance pooling  *)
(* rule, and the interval  di -/+ 1.96 * se.  The notebook's cells are the *)
(* actions; the kernel's variables are the state.                          *)
(*                                                                         *)
(* Floating point values are modelled as fixed-point numbers with SCALE    *)
(* units per 1.0, together with the special values NaN and +/-Inf that     *)
(* numpy produces (with a RuntimeWarning, never an exception) for the      *)
(* square root of a negative number and for a division by zero.            *)
(***************************************************************************)
EXTENDS Integers, FiniteSets, Sequences, TLC

----------------------------------------------------------------------------
(* Bounds of the model *)

\* fixed-point resolution: SCALE units per 1.0
SCALE == 1000

\* the largest group size drawn as an input
MaxCount == 2

\* the largest number of survey records drawn as an input
MaxRecords == 4

----------------------------------------------------------------------------
(* Floating point values *)

Num(v) == [k |-> "num", v |-> v]

NaN == [k |-> "nan", v |-> 0]

Inf(s) == [k |-> "inf", v |-> s]

\* a kernel variable that no cell has assigned yet
Unset == [k |-> "unset", v |-> 0]

Abs(n) == IF n < 0 THEN -n ELSE n

Sgn(n) == IF n < 0 THEN -1 ELSE IF n > 0 THEN 1 ELSE 0

\* a / b rounded to the nearest integer, halves away from zero (b # 0)
RDiv(a, b) ==
    Sgn(a) * Sgn(b) * ((2 * Abs(a) + Abs(b)) \div (2 * Abs(b)))

RECURSIVE ISqrtBetween(_, _, _)
\* the largest r in lo..hi with r * r <= n  (lo * lo <= n)
ISqrtBetween(lo, hi, n) ==
    IF lo >= hi THEN lo
    ELSE LET mid == (lo + hi + 1) \div 2
         IN  IF mid * mid <= n THEN ISqrtBetween(mid, hi, n)
             ELSE ISqrtBetween(lo, mid - 1, n)

\* the square root of n >= 0 rounded to the nearest integer (46340 is the
\* largest root of a 32-bit integer)
ISqrt(n) ==
    LET r == ISqrtBetween(0, IF n > 46340 THEN 46340 ELSE n, n)
    IN  IF n - r * r > r THEN r + 1 ELSE r

\* an integer (numpy int64) converted to a float
FromInt(n) == Num(n * SCALE)

FNeg(x) ==
    CASE x.k = "num" -> Num(-x.v)
      [] x.k = "inf" -> Inf(-x.v)
      [] OTHER -> NaN

FAdd(x, y) ==
    CASE x.k = "num" /\ y.k = "num" -> Num(x.v + y.v)
      [] x.k = "inf" /\ y.k = "num" -> x
      [] x.k = "num" /\ y.k = "inf" -> y
      [] x.k = "inf" /\ y.k = "inf" -> IF x.v = y.v THEN x ELSE NaN
      [] OTHER -> NaN

FSub(x, y) == FAdd(x, FNeg(y))

FMul(x, y) ==
    CASE x.k = "num" /\ y.k = "num" -> Num(RDiv(x.v * y.v, SCALE))
      [] x.k \in {"num", "inf"} /\ y.k \in {"num", "inf"} ->
            IF Sgn(x.v) * Sgn(y.v) = 0 THEN NaN ELSE Inf(Sgn(x.v) * Sgn(y.v))
      [] OTHER -> NaN

FDiv(x, y) ==
    CASE x.k = "num" /\ y.k = "num" ->
            IF y.v # 0 THEN Num(RDiv(x.v * SCALE, y.v))
            ELSE IF x.v = 0 THEN NaN ELSE Inf(Sgn(x.v))
      [] x.k = "inf" /\ y.k = "num" -> Inf(IF y.v < 0 THEN -x.v ELSE x.v)
      [] x.k = "num" /\ y.k = "inf" -> Num(0)
      [] OTHER -> NaN

\* np.sqrt: NaN for a negative argument
FSqrt(x) ==
    CASE x.k = "num" -> IF x.v < 0 THEN NaN ELSE Num(ISqrt(x.v * SCALE))
      [] x.k = "inf" -> IF x.v > 0 THEN x ELSE NaN
      [] OTHER -> NaN

\* x ** 2
FSquare(x) == FMul(x, x)

\* x < y and x <= y of floats: False when either side is NaN
FLt(x, y) ==
    CASE x.k = "num" /\ y.k = "num" -> x.v < y.v
      [] x.k = "inf" /\ y.k = "num" -> x.v < 0
      [] x.k = "num" /\ y.k = "inf" -> y.v > 0
      [] x.k = "inf" /\ y.k = "inf" -> x.v < y.v
      [] OTHER -> FALSE

FLe(x, y) ==
    /\ x.k \in {"num", "inf"}
    /\ y.k \in {"num", "inf"}
    /\ (FLt(x, y) \/ x = y)

----------------------------------------------------------------------------
(* The formulas of the notebook *)

\* the literal 1.96 of the interval cells
Z196 == Num((196 * SCALE) \div 100)

\* the coverage, in percent, that the notebook states for its intervals
NominalCoverage == 95

\* the formula with the square root taken of the numerator only
standard_error_proportion_numerator(p, n) ==
    FDiv(FSqrt(FMul(p, FSub(Num(SCALE), p))), FromInt(n))

\* np.sqrt(p * (1 - p) / n)
standard_error_proportion(p, n) ==
    FSqrt(FDiv(FMul(p, FSub(Num(SCALE), p)), FromInt(n)))

\* std / np.sqrt(size)
standard_error_mean(std, size) ==
    FDiv(std, FSqrt(FromInt(size)))

\* the pooling rule with the squares subtracted
pool_standard_errors_minus(se_a, se_b) ==
    FSqrt(FAdd(FSquare(se_a), FNeg(FSquare(se_b))))

\* np.sqrt(se_a**2 + se_b**2)
pool_standard_errors(se_a, se_b) ==
    FSqrt(FAdd(FSquare(se_a), FSquare(se_b)))

\* the interval cell with the signs of its two lines exchanged
confidence_interval_swapped(point_estimate, standard_error, cov) ==
    [point_estimate |-> point_estimate,
     standard_error |-> standard_error,
     lower_bound    |-> FAdd(point_estimate, FMul(Z196, standard_error)),
     upper_bound    |-> FSub(point_estimate, FMul(Z196, standard_error)),
     coverage       |-> NominalCoverage]

\* the interval cell with the multiplier left out of its first line
confidence_interval_lopsided(point_estimate, standard_error, cov) ==
    [point_estimate |-> point_estimate,
     standard_error |-> standard_error,
     lower_bound    |-> FSub(point_estimate, standard_error),
     upper_bound    |-> FAdd(point_estimate, FMul(Z196, standard_error)),
     coverage       |-> NominalCoverage]

\* the interval cell with a least half-width of one unit in the last place
confidence_interval_padded(point_estimate, standard_error, cov) ==
    [point_estimate |-> point_estimate,
     standard_error |-> standard_error,
     lower_bound    |-> FSub(FSub(point_estimate, FMul(Z196, standard_error)),
                             Num(1)),
     upper_bound    |-> FAdd(FAdd(point_estimate, FMul(Z196, standard_error)),
                             Num(1)),
     coverage       |-> NominalCoverage]

\* lcb = di - 1.96 * se ; ucb = di + 1.96 * se ; the requested coverage is
\* not read
confidence_interval(point_estimate, standard_error, cov) ==
    [point_estimate |-> point_estimate,
     standard_error |-> standard_error,
     lower_bound    |-> FSub(point_estimate, FMul(Z196, standard_error)),
     upper_bound    |-> FAdd(point_estimate, FMul(Z196, standard_error)),
     coverage       |-> NominalCoverage]

----------------------------------------------------------------------------
(* The kernel state *)

VARIABLES
    op,          \* the operation under way
    kind,        \* "Proportion" (cells 8-12) or "Mean" (cells 20-23)
    ct,          \* the smoking cross-tab: per sex, Total and smoke_prop
    ta,          \* the BMI table: per sex, mean, std and size
    coverage,    \* the coverage the caller asks for, in percent
    pc,          \* the next cell to execute
    di, se_female, se_male, se_diff,
    sem_female, sem_male, sem_diff,
    lcb, ucb,
    error,       \* the exception raised by a cell, "none" when none was
    prev,        \* the request and result of the caller's previous call
    da,          \* the survey records, one row each
    other,       \* the next cell of a second run under way, "none" without
    letters,     \* x, the population: the list of letters
    sample,      \* the array printed by the last draw
    earlier,     \* the array printed by the draw before it
    draws        \* the iterations of the sampling loop made so far

vars == <<op, kind, ct, ta, coverage, pc, di, se_female, se_male, se_diff,
          sem_female, sem_male, sem_diff, lcb, ucb, error, prev, da,
          other, letters, sample, earlier, draws>>

\* the variables of the sampling notebook
sampling == <<letters, sample, earlier, draws>>

inputs == <<op, kind, ct, ta, coverage, prev, da, other, sampling>>

\* group sizes: -1 and 0 are not sizes of a sample
Counts == -1 .. MaxCount

\* proportions 0, 1/4, 1/2, 1, and 3/2 which is no proportion
Props == {Num(0), Num(SCALE \div 4), Num(SCALE \div 2), Num(SCALE),
          Num((3 * SCALE) \div 2)}

Means == {Num(-2 * SCALE), Num(0), Num(3 * SCALE)}

\* standard deviations; -1 is none
Stds == {Num(-SCALE), Num(0), Num((3 * SCALE) \div 2)}

\* requested coverages in percent; 0 and 100 are outside (0, 1)
Coverages == {0, 90, 95, 100}

PointEstimates == {Num(-SCALE), Num(0), Num(SCALE \div 2)}

StdErrors == {Num(-SCALE \div 2), Num(0), Num(SCALE \div 10), Num(SCALE)}

CtRows == [Total : Counts, smoke_prop : Props]

TaRows == [mean : Means, std : Stds, size : Counts]

NoTable == [Female |-> Unset, Male |-> Unset]

NoCall == [request |-> -1, result |-> Unset]

\* the result the caller reads off the kernel after the interval cell
IntervalResult ==
    [point_estimate |-> di,
     standard_error |-> IF kind = "Mean" THEN sem_diff ELSE se_diff,
     lower_bound    |-> lcb,
     upper_bound    |-> ucb,
     coverage       |-> NominalCoverage]

\* the sampling notebook has not been run
NoSampling ==
    letters = <<>> /\ sample = <<>> /\ earlier = <<>> /\ draws = 0

InitComputed ==
    /\ se_female = Unset /\ se_male = Unset
    /\ sem_female = Unset /\ sem_male = Unset /\ sem_diff = Unset
    /\ lcb = Unset /\ ucb = Unset
    /\ error = "none"
    /\ prev = NoCall
    /\ other = "none"
    /\ NoSampling

\* difference_interval on a cross-tab of proportions
InitProportion ==
    /\ op = "difference_interval" /\ kind = "Proportion"
    /\ ct \in [{"Female", "Male"} -> CtRows]
    /\ ta = NoTable
    /\ pc = "cell8"
    /\ di = Unset /\ se_diff = Unset

\* difference_interval on a table of means
InitMean ==
    /\ op = "difference_interval" /\ kind = "Mean"
    /\ ct = NoTable
    /\ ta \in [{"Female", "Male"} -> TaRows]
    /\ pc = "cell20"
    /\ di = Unset /\ se_diff = Unset

\* confidence_interval on a point estimate and a standard error
InitInterval ==
    /\ op = "confidence_interval" /\ kind = "Proportion"
    /\ ct = NoTable /\ ta = NoTable
    /\ pc = "cell12"
    /\ di \in PointEstimates /\ se_diff \in StdErrors

Init ==
    /\ coverage \in Coverages
    /\ da = <<>>
    /\ InitComputed
    /\ (InitProportion \/ InitMean \/ InitInterval)

----------------------------------------------------------------------------
(* The cells *)

\* cell 8 with the difference taken the other way round
Cell8_reversed ==
    /\ pc = "cell8"
    /\ di' = FSub(ct["Female"].smoke_prop, ct["Male"].smoke_prop)
    /\ pc' = "cell9"
    /\ UNCHANGED <<inputs, se_female, se_male, se_diff, sem_female, sem_male,
                   sem_diff, lcb, ucb, error>>

\* di = ct.loc["Male", "smoke_prop"] - ct.loc["Female", "smoke_prop"]
Cell8 ==
    /\ pc = "cell8"
    /\ di' = FSub(ct["Male"].smoke_prop, ct["Female"].smoke_prop)
    /\ pc' = "cell9"
    /\ UNCHANGED <<inputs, se_female, se_male, se_diff, sem_female, sem_male,
                   sem_diff, lcb, ucb, error>>

\* pf, nf, se_female
Cell9 ==
    /\ pc = "cell9"
    /\ LET pf == ct["Female"].smoke_prop
           nf == ct["Female"].Total
       IN  se_female' = standard_error_proportion(pf, nf)
    /\ pc' = "cell10"
    /\ UNCHANGED <<inputs, di, se_male, se_diff, sem_female, sem_male,
                   sem_diff, lcb, ucb, error>>

\* pm, nm, se_male
Cell10 ==
    /\ pc = "cell10"
    /\ LET pm == ct["Male"].smoke_prop
           nm == ct["Male"].Total
       IN  se_male' = standard_error_proportion(pm, nm)
    /\ pc' = "cell11"
    /\ UNCHANGED <<inputs, di, se_female, se_diff, sem_female, sem_male,
                   sem_diff, lcb, ucb, error>>

\* se_diff = np.sqrt(se_female**2 + se_male**2)
Cell11 ==
    /\ pc = "cell11"
    /\ se_diff' = pool_standard_errors(se_female, se_male)
    /\ pc' = "cell12"
    /\ UNCHANGED <<inputs, di, se_female, se_male, sem_female, sem_male,
                   sem_diff, lcb, ucb, error>>

\* lcb = di - 1.96 * se_diff ; ucb = di + 1.96 * se_diff
Cell12 ==
    /\ pc = "cell12"
    /\ LET r == confidence_interval(di, se_diff, coverage)
       IN  /\ lcb' = r.lower_bound
           /\ ucb' = r.upper_bound
    /\ pc' = "done"
    /\ UNCHANGED <<inputs, di, se_female, se_male, se_diff, sem_female,
                   sem_male, sem_diff, error>>

\* sem_female, sem_male
Cell20 ==
    /\ pc = "cell20"
    /\ sem_female' = standard_error_mean(ta["Female"].std, ta["Female"].size)
    /\ sem_male' = standard_error_mean(ta["Male"].std, ta["Male"].size)
    /\ pc' = "cell21"
    /\ UNCHANGED <<inputs, di, se_female, se_male, se_diff, sem_diff, lcb,
                   ucb, error>>

\* sem_diff = np.sqrt(sem_female**2 + sem_male**2)
Cell21 ==
    /\ pc = "cell21"
    /\ sem_diff' = pool_standard_errors(sem_female, sem_male)
    /\ pc' = "cell22"
    /\ UNCHANGED <<inputs, di, se_female, se_male, se_diff, sem_female,
                   sem_male, lcb, ucb, error>>

\* cell 22 with the size of the difference instead of the difference
Cell22_absolute ==
    /\ pc = "cell22"
    /\ di' = LET d == FSub(ta["Female"].mean, ta["Male"].mean)
             IN  IF FLt(d, Num(0)) THEN FNeg(d) ELSE d
    /\ pc' = "cell23"
    /\ UNCHANGED <<inputs, se_female, se_male, se_diff, sem_female, sem_male,
                   sem_diff, lcb, ucb, error>>

\* cell 22 left out: di keeps the value of the proportions section
Cell22_skipped ==
    /\ pc = "cell22"
    /\ pc' = "cell23"
    /\ UNCHANGED <<inputs, di, se_female, se_male, se_diff, sem_female,
                   sem_male, sem_diff, lcb, ucb, error>>

\* di = ta.loc["Female", ("BMXBMI", "mean")] - ta.loc["Male", ("BMXBMI", "mean")]
Cell22 ==
    /\ pc = "cell22"
    /\ di' = FSub(ta["Female"].mean, ta["Male"].mean)
    /\ pc' = "cell23"
    /\ UNCHANGED <<inputs, se_female, se_male, se_diff, sem_female, sem_male,
                   sem_diff, lcb, ucb, error>>

\* lcb = di - 1.96 * sem_diff ; ucb = di + 1.96 * sem_diff
Cell23 ==
    /\ pc = "cell23"
    /\ LET r == confidence_interval(di, sem_diff, coverage)
       IN  /\ lcb' = r.lower_bound
           /\ ucb' = r.upper_bound
    /\ pc' = "done"
    /\ UNCHANGED <<inputs, di, se_female, se_male, se_diff, sem_female,
                   sem_male, sem_diff, error>>

\* the caller keeps the result and makes the same call once more, asking
\* for another coverage: the cells of the operation are executed again
Recall ==
    /\ pc = "done"
    /\ prev = NoCall
    /\ \E c \in Coverages \ {coverage} : coverage' = c
    /\ prev' = [request |-> coverage, result |-> IntervalResult]
    /\ pc' = IF op = "confidence_interval" THEN "cell12"
             ELSE IF kind = "Proportion" THEN "cell8" ELSE "cell20"
    /\ UNCHANGED <<op, kind, ct, ta, di, se_female, se_male, se_diff,
                   sem_female, sem_male, sem_diff, lcb, ucb, error, da,
                   other, sampling>>

Next ==
    \/ Cell8 \/ Cell9 \/ Cell10 \/ Cell11 \/ Cell12
    \/ Cell20 \/ Cell21 \/ Cell22 \/ Cell23
    \/ Recall

Spec == Init /\ [][Next]_vars

----------------------------------------------------------------------------
(* The notebook from the survey records on *)

\* the kinds of record drawn: every smoking answer 1, 2 with every sex 1, 2
\* and a BMI of 20, 30 or none (1..12); the answers 7 and 9 (13..16); and
\* records without a sex (17, 18)
RecordKinds == 12 + 4 + 2

RecordOfKind(i) ==
    IF i <= 12
    THEN [SMQ020   |-> FromInt(1 + ((i - 1) % 2)),
          RIAGENDR |-> FromInt(1 + (((i - 1) \div 2) % 2)),
          BMXBMI   |-> CASE (i - 1) \div 4 = 0 -> NaN
                         [] (i - 1) \div 4 = 1 -> FromInt(20)
                         [] OTHER -> FromInt(30)]
    ELSE IF i <= 16
    THEN [SMQ020   |-> FromInt(IF i % 2 = 1 THEN 7 ELSE 9),
          RIAGENDR |-> FromInt(IF i <= 14 THEN 1 ELSE 2),
          BMXBMI   |-> FromInt(20)]
    ELSE [SMQ020   |-> FromInt(IF i = 17 THEN 1 ELSE 7),
          RIAGENDR |-> NaN,
          BMXBMI   |-> FromInt(30)]

RECURSIVE SortedKinds(_, _)
\* the non-decreasing sequences of n kinds from lo on: no cell depends on
\* the order of the rows
SortedKinds(n, lo) ==
    IF n = 0 THEN {<<>>}
    ELSE UNION {{<<i>> \o s : s \in SortedKinds(n - 1, i)} :
                  i \in lo .. RecordKinds}

\* pd.read_csv("nhanes_2015_2016.csv")
Datasets ==
    {[j \in DOMAIN s |-> RecordOfKind(s[j])] :
        s \in UNION {SortedKinds(n, 1) : n \in 0 .. MaxRecords}}

\* the number of rows of a table that satisfy P
CountRows(rows, P(_)) == Len(SelectSeq(rows, P))

RECURSIVE FSum(_)
\* the sum of a sequence of floats
FSum(xs) ==
    IF xs = <<>> THEN Num(0)
    ELSE FAdd(FSum(SubSeq(xs, 1, Len(xs) - 1)), xs[Len(xs)])

\* the sum of f over the rows that satisfy P
SumRows(rows, P(_), f(_)) ==
    LET kept == SelectSeq(rows, P)
    IN  FSum([i \in DOMAIN kept |-> f(kept[i])])

\* the recode without the key 9
replace_SMQ020_no9(v) ==
    CASE v = FromInt(1) -> "smoke"
      [] v = FromInt(2) -> "nosmoke"
      [] v = FromInt(7) -> "nan"
      [] v = NaN -> "nan"
      [] OTHER -> "kept"

\* .replace({1: "smoke", 2: "nosmoke", 7: np.nan, 9: np.nan}); a value that
\* is not a key is kept
replace_SMQ020(v) ==
    CASE v = FromInt(1) -> "smoke"
      [] v = FromInt(2) -> "nosmoke"
      [] v = FromInt(7) -> "nan"
      [] v = FromInt(9) -> "nan"
      [] v = NaN -> "nan"
      [] OTHER -> "kept"

\* .replace({1: "Male", 2: "Female"})
replace_RIAGENDR(v) ==
    CASE v = FromInt(1) -> "Male"
      [] v = FromInt(2) -> "Female"
      [] v = NaN -> "nan"
      [] OTHER -> "kept"

\* dropna on the smoking column only
Complete_smoking(row) == row.SMQ020x # "nan"

\* da[["SMQ020x", "RIAGENDRx"]].dropna(): the rows kept
Complete(row) == row.SMQ020x # "nan" /\ row.RIAGENDRx # "nan"

\* pd.crosstab(dx.RIAGENDRx, dx.SMQ020x): a row per sex and a column per
\* answer that occurs in dx, and the count of each pair
crosstab(rows) ==
    LET n       == Len(rows)
        sexes   == {rows[i].RIAGENDRx : i \in {j \in 1 .. n : Complete(rows[j])}}
        answers == {rows[i].SMQ020x : i \in {j \in 1 .. n : Complete(rows[j])}}
    IN  [g \in sexes |->
            [a \in answers |->
                LET Is(row) == /\ Complete(row)
                               /\ row.RIAGENDRx = g
                               /\ row.SMQ020x = a
                IN  CountRows(rows, Is)]]

\* the same columns, with smoke_prop taken against nosmoke, not Total
with_proportions_odds(row) ==
    LET Total == row.nosmoke + row.smoke
    IN  [nosmoke      |-> row.nosmoke,
         smoke        |-> row.smoke,
         Total        |-> Total,
         nosmoke_prop |-> FDiv(FromInt(row.nosmoke), FromInt(Total)),
         smoke_prop   |-> FDiv(FromInt(row.smoke), FromInt(row.nosmoke))]

\* the columns Total, nosmoke_prop and smoke_prop of one row of ct
with_proportions(row) ==
    LET Total == row.nosmoke + row.smoke
    IN  [nosmoke      |-> row.nosmoke,
         smoke        |-> row.smoke,
         Total        |-> Total,
         nosmoke_prop |-> FDiv(FromInt(row.nosmoke), FromInt(Total)),
         smoke_prop   |-> FDiv(FromInt(row.smoke), FromInt(Total))]

\* groupby("RIAGENDRx").agg({"BMXBMI": ["mean", "std", np.size]}): mean and
\* std skip the missing values, np.size is the number of rows of the group
groupby_agg(rows) ==
    LET n     == Len(rows)
        sexes == {rows[i].RIAGENDRx : i \in 1 .. n} \ {"nan"}
    IN  [g \in sexes |->
            LET In(row)  == row.RIAGENDRx = g
                Has(row) == In(row) /\ row.BMXBMI # NaN
                Bmi(row) == row.BMXBMI
                count    == CountRows(rows, Has)
                mean     == FDiv(SumRows(rows, Has, Bmi), FromInt(count))
                Dev2(row) == FSquare(FSub(row.BMXBMI, mean))
            IN  [mean |-> mean,
                 std  |-> IF count < 2 THEN NaN
                          ELSE FSqrt(FDiv(SumRows(rows, Has, Dev2),
                                          FromInt(count - 1))),
                 size |-> CountRows(rows, In)]]

computed == <<di, se_female, se_male, se_diff, sem_female, sem_male,
              sem_diff, lcb, ucb>>

NbInit ==
    /\ op = "notebook" /\ kind = "Proportion"
    /\ da \in Datasets
    /\ ct = NoTable /\ ta = NoTable
    /\ coverage = NominalCoverage
    /\ pc = "cell3"
    /\ di = Unset /\ se_diff = Unset
    /\ InitComputed

\* a cell raises: the run stops there
Raise(e) ==
    /\ error' = e
    /\ pc' = "halt"

\* da["SMQ020x"] = da.SMQ020.replace(...)
Cell3 ==
    /\ pc = "cell3"
    /\ da' = [i \in DOMAIN da |->
                [SMQ020 |-> da[i].SMQ020, RIAGENDR |-> da[i].RIAGENDR,
                 BMXBMI |-> da[i].BMXBMI,
                 SMQ020x |-> replace_SMQ020(da[i].SMQ020)]]
    /\ pc' = "cell5"
    /\ UNCHANGED <<op, kind, ct, ta, coverage, prev, other, sampling,
                   computed, error>>

\* da["RIAGENDRx"] = da.RIAGENDR.replace(...)
Cell5 ==
    /\ pc = "cell5"
    /\ da' = [i \in DOMAIN da |->
                [SMQ020 |-> da[i].SMQ020, RIAGENDR |-> da[i].RIAGENDR,
                 BMXBMI |-> da[i].BMXBMI, SMQ020x |-> da[i].SMQ020x,
                 RIAGENDRx |-> replace_RIAGENDR(da[i].RIAGENDR)]]
    /\ pc' = "cell6"
    /\ UNCHANGED <<op, kind, ct, ta, coverage, prev, other, sampling,
                   computed, error>>

\* dx = da[["SMQ020x", "RIAGENDRx"]].dropna() ; ct = pd.crosstab(...)
Cell6 ==
    /\ pc = "cell6"
    /\ ct' = crosstab(da)
    /\ pc' = "cell7"
    /\ UNCHANGED <<op, kind, ta, coverage, prev, da, other, sampling,
                   computed, error>>

\* ct["Total"], ct["nosmoke_prop"], ct["smoke_prop"]; a KeyError when no
\* record answered nosmoke, or none smoke
Cell7 ==
    /\ pc = "cell7"
    /\ IF \A g \in DOMAIN ct : {"nosmoke", "smoke"} \subseteq DOMAIN ct[g]
       THEN /\ DOMAIN ct # {}
            /\ ct' = [g \in DOMAIN ct |-> with_proportions(ct[g])]
            /\ pc' = "cell8"
            /\ UNCHANGED error
       ELSE /\ Raise("KeyError")
            /\ UNCHANGED ct
    /\ UNCHANGED <<op, kind, ta, coverage, prev, da, other, sampling,
                   computed>>

\* the same cell on a cross-tab without any row: ct["nosmoke"] is no column
Cell7Empty ==
    /\ pc = "cell7"
    /\ DOMAIN ct = {}
    /\ Raise("KeyError")
    /\ UNCHANGED <<inputs, computed>>

\* cell 8 reads the row of a sex that the cross-tab does not have (the BMI
\* table has a row for every sex of the cross-tab)
CellKeyError ==
    /\ pc = "cell8" /\ op = "notebook"
    /\ ~({"Female", "Male"} \subseteq DOMAIN ct)
    /\ Raise("KeyError")
    /\ UNCHANGED <<inputs, computed>>

\* ta = da.groupby("RIAGENDRx").agg({"BMXBMI": ["mean", "std", np.size]})
Cell18 ==
    /\ pc = "done" /\ op = "notebook" /\ kind = "Proportion"
    /\ ta' = groupby_agg(da)
    /\ kind' = "Mean"
    /\ pc' = "cell20"
    /\ UNCHANGED <<op, ct, coverage, prev, da, other, sampling,
                   computed, error>>

NbNext ==
    \/ Cell3 \/ Cell5 \/ Cell6 \/ Cell7 \/ Cell7Empty \/ CellKeyError
    \/ ({"Female", "Male"} \subseteq DOMAIN ct /\ Cell8)
    \/ Cell9 \/ Cell10 \/ Cell11 \/ Cell12
    \/ Cell18
    \/ Cell20
    \/ Cell21 \/ Cell22 \/ Cell23

\* the cells executed in the order of the document
SpecNotebook == NbInit /\ [][NbNext]_vars

----------------------------------------------------------------------------
(* What the claims speak of *)

\* the groups a and b of difference_interval: the point estimate is the
\* statistic of a minus the statistic of b
GroupA == IF kind = "Proportion" THEN "Male" ELSE "Female"

GroupB == IF kind = "Proportion" THEN "Female" ELSE "Male"

Statistic(g) == IF kind = "Proportion" THEN ct[g].smoke_prop ELSE ta[g].mean

StandardErrorOf(g) ==
    IF kind = "Proportion"
    THEN standard_error_proportion(ct[g].smoke_prop, ct[g].Total)
    ELSE standard_error_mean(ta[g].std, ta[g].size)

\* the preconditions of the operations
ValidProportion(row) ==
    /\ row.Total > 0
    /\ FLe(Num(0), row.smoke_prop)
    /\ FLe(row.smoke_prop, Num(SCALE))

ValidMean(row) == row.size > 0 /\ FLe(Num(0), row.std)

ValidSummary(g) ==
    IF kind = "Proportion" THEN ValidProportion(ct[g]) ELSE ValidMean(ta[g])

ValidCoverage(c) == c \in 1 .. 99

ValidInputs ==
    /\ ValidCoverage(coverage)
    /\ IF op = "confidence_interval" THEN FLe(Num(0), se_diff)
       ELSE ValidSummary("Female") /\ ValidSummary("Male")

\* the call has returned
Returned == pc = "done"

\* the caller has made the same call twice, asking for two valid coverages
TwoCalls ==
    /\ Returned
    /\ prev # NoCall
    /\ ValidCoverage(prev.request)
    /\ ValidCoverage(coverage)
    /\ FLt(Num(0), IntervalResult.standard_error)

----------------------------------------------------------------------------
(* C1: the multiplier follows the requested coverage: two calls with the   *)
(* same point estimate, the same standard error > 0 and different          *)
(* coverages return different bounds.                                      *)
C1_BoundsFollowCoverage ==
    TwoCalls =>
        /\ lcb # prev.result.lower_bound
        /\ ucb # prev.result.upper_bound

(* C2: of two calls with the same point estimate and standard error > 0,   *)
(* the one with the larger coverage returns the strictly wider interval.   *)
C2_WiderWithCoverage ==
    (TwoCalls /\ prev.request < coverage) =>
        /\ FLt(lcb, prev.result.lower_bound)
        /\ FLt(prev.result.upper_bound, ucb)

(* C3: every interval returned for a valid input has                       *)
(* lower_bound <= point_estimate <= upper_bound and a coverage strictly    *)
(* between 0 and 1.                                                        *)
C3_BoundsEnclosePoint ==
    (Returned /\ ValidInputs) =>
        /\ FLe(IntervalResult.lower_bound, IntervalResult.point_estimate)
        /\ FLe(IntervalResult.point_estimate, IntervalResult.upper_bound)
        /\ IntervalResult.coverage \in 1 .. 99

\* a valid call with a negative point estimate has returned a proper interval
C3_Witness ==
    /\ Returned /\ ValidInputs
    /\ FLt(di, Num(0))
    /\ FLt(lcb, di) /\ FLt(di, ucb)

C5_DifferenceIsComposition ==
    (Returned /\ op = "difference_interval" /\ ValidInputs) =>
        IntervalResult =
            confidence_interval(
                FSub(Statistic(GroupA), Statistic(GroupB)),
                pool_standard_errors(StandardErrorOf(GroupA),
                                     StandardErrorOf(GroupB)),
                coverage)

\* difference_interval has returned for two valid groups whose statistics
\* and standard errors differ
C5_Witness ==
    /\ Returned /\ op = "difference_interval" /\ ValidInputs
    /\ Statistic(GroupA) # Statistic(GroupB)
    /\ FLt(Num(0), StandardErrorOf(GroupA))
    /\ FLt(StandardErrorOf(GroupA), StandardErrorOf(GroupB))

(* C6: confidence_interval fails with InvalidInput, returning no interval, *)
(* whenever the standard error is negative or the coverage is not strictly *)
(* between 0 and 1.                                                        *)
C6_IntervalRejectsInvalid ==
    (Returned /\ op = "confidence_interval" /\ prev = NoCall
        /\ ~ValidInputs) =>
        /\ error = "InvalidInput"
        /\ lcb = Unset /\ ucb = Unset

(* C7: standard_error_proportion raises InvalidInput when the statistic is *)
(* outside [0,1] or the count is not positive.                             *)
C7_ProportionRejectsInvalid ==
    (pc = "cell10" /\ prev = NoCall /\ ~ValidProportion(ct["Female"])) =>
        /\ error = "InvalidInput"
        /\ se_female = Unset

(* C8: standard_error_mean fails with InvalidInput when the dispersion is  *)
(* negative or the count is not positive, and returns                      *)
(* dispersion / sqrt(count) without error otherwise.                       *)
C8_MeanRejectsInvalid ==
    (pc = "cell21" /\ prev = NoCall) =>
        IF ValidMean(ta["Female"])
        THEN /\ error = "none"
             /\ sem_female = FDiv(ta["Female"].std,
                                  FSqrt(FromInt(ta["Female"].size)))
        ELSE /\ error = "InvalidInput"
             /\ sem_female = Unset

(* C9: pool_standard_errors fails with InvalidInput when either argument   *)
(* is negative, and does not return what it returns for the absolute       *)
(* values.                                                                 *)
C9_PoolRejectsNegative ==
    (pc = "cell22" /\ prev = NoCall
        /\ (FLt(sem_female, Num(0)) \/ FLt(sem_male, Num(0)))) =>
        /\ error = "InvalidInput"
        /\ sem_diff # pool_standard_errors(FNeg(sem_female), sem_male)
        /\ sem_diff # pool_standard_errors(sem_female, FNeg(sem_male))

(* C10: a call of difference_interval with an invalid summary or coverage  *)
(* ends in InvalidInput and at no time holds a standard error, a pooled    *)
(* error, a point estimate or a bound.                                     *)
C10_NothingPartial ==
    (op = "difference_interval" /\ prev = NoCall /\ ~ValidInputs) =>
        /\ di = Unset
        /\ se_female = Unset /\ se_male = Unset /\ se_diff = Unset
        /\ sem_female = Unset /\ sem_male = Unset /\ sem_diff = Unset
        /\ lcb = Unset /\ ucb = Unset
        /\ (Returned => error = "InvalidInput")

\* r is the fixed-point root of the fixed-point x: |r - sqrt(x * SCALE)| <= 1/2
IsRootOf(r, x) ==
    /\ r >= 0
    /\ (r = 0 \/ (2 * r - 1) * (2 * r - 1) <= 4 * x * SCALE)
    /\ 4 * x * SCALE <= (2 * r + 1) * (2 * r + 1)

\* se is sqrt(p * (1 - p) / n) of the row, to the resolution of the model
IsProportionError(se, row) ==
    /\ se.k = "num"
    /\ \E q \in 0 .. SCALE :
          /\ Abs(q * SCALE * row.Total
                 - row.smoke_prop.v * (SCALE - row.smoke_prop.v))
                <= SCALE * row.Total
          /\ q = FDiv(FMul(row.smoke_prop, FSub(Num(SCALE), row.smoke_prop)),
                      FromInt(row.Total)).v
          /\ IsRootOf(se.v, q)
    /\ (row.smoke_prop \in {Num(0), Num(SCALE)} => se = Num(0))

(* C11: for every valid proportion summary standard_error_proportion       *)
(* returns sqrt(p*(1-p)/n), and exactly 0 when p is 0 or 1, without error. *)
C11_ProportionError ==
    (pc = "cell11" /\ op = "difference_interval") =>
        /\ ValidProportion(ct["Female"]) =>
              IsProportionError(se_female, ct["Female"])
        /\ ValidProportion(ct["Male"]) =>
              IsProportionError(se_male, ct["Male"])
        /\ error = "none"

\* both standard errors are computed, one positive from a group of two and
\* one zero from a degenerate proportion
C11_Witness ==
    /\ pc = "cell11" /\ op = "difference_interval"
    /\ ValidProportion(ct["Female"]) /\ ValidProportion(ct["Male"])
    /\ ct["Female"].Total = 2 /\ FLt(Num(0), se_female)
    /\ ct["Male"].smoke_prop = Num(SCALE) /\ se_male = Num(0)

\* standard errors to compare the pooled value against
PoolArguments ==
    {Num(0), Num(SCALE \div 10), Num(SCALE \div 2), Num(SCALE),
     Num((3 * SCALE) \div 2)}

\* the pooled value of the two numbers a, b >= 0 is sqrt(a^2 + b^2) and does
\* not decrease when either argument grows
IsPooled(r, a, b) ==
    /\ r.k = "num"
    /\ IsRootOf(r.v, RDiv(a.v * a.v, SCALE) + RDiv(b.v * b.v, SCALE))
    /\ \A x \in PoolArguments :
          /\ FLe(a, x) => FLe(r, pool_standard_errors(x, b))
          /\ FLe(x, a) => FLe(pool_standard_errors(x, b), r)
          /\ FLe(b, x) => FLe(r, pool_standard_errors(a, x))
          /\ FLe(x, b) => FLe(pool_standard_errors(a, x), r)

NonNegative(x) == x.k = "num" /\ x.v >= 0

(* C12: for all se_a, se_b >= 0 pool_standard_errors returns               *)
(* sqrt(se_a^2 + se_b^2), and the result is non-decreasing in each         *)
(* argument.                                                               *)
C12_Pooled ==
    /\ (pc = "cell12" /\ op = "difference_interval"
          /\ NonNegative(se_female) /\ NonNegative(se_male)) =>
            IsPooled(se_diff, se_female, se_male)
    /\ (pc = "cell22" /\ NonNegative(sem_female) /\ NonNegative(sem_male)) =>
            IsPooled(sem_diff, sem_female, sem_male)

\* two different positive standard errors of means have been pooled
C12_Witness ==
    /\ pc = "cell22"
    /\ FLt(Num(0), sem_female) /\ FLt(sem_female, sem_male)
    /\ FLt(sem_male, sem_diff)

----------------------------------------------------------------------------
(* The notebook in document order *)

\* the point estimates of the two sections
ProportionDifference ==
    FSub(ct["Male"].smoke_prop, ct["Female"].smoke_prop)

MeanDifference == FSub(ta["Female"].mean, ta["Male"].mean)

(* C17: in document order di, lcb and ucb are each assigned twice: first   *)
(* by the proportions section (male minus female, se_diff), then by the    *)
(* means section (female minus male, sem_diff); when an interval is        *)
(* computed di holds the point estimate of its own section.                *)
C17_DocumentOrder ==
    [][/\ (di' # di) => pc \in {"cell8", "cell22"}
       /\ (lcb' # lcb \/ ucb' # ucb) => pc \in {"cell12", "cell23"}
       /\ (pc = "cell8" /\ error' = "none") =>
             di = Unset /\ di' = ProportionDifference
       /\ pc = "cell12" =>
             /\ di = ProportionDifference
             /\ lcb = Unset /\ ucb = Unset
             /\ lcb' = FSub(ProportionDifference, FMul(Z196, se_diff))
             /\ ucb' = FAdd(ProportionDifference, FMul(Z196, se_diff))
       /\ pc = "cell22" => di = ProportionDifference /\ di' = MeanDifference
       /\ pc = "cell23" =>
             /\ di = MeanDifference
             /\ lcb = FSub(ProportionDifference, FMul(Z196, se_diff))
             /\ ucb = FAdd(ProportionDifference, FMul(Z196, se_diff))
             /\ lcb' = FSub(MeanDifference, FMul(Z196, sem_diff))
             /\ ucb' = FAdd(MeanDifference, FMul(Z196, sem_diff))
      ]_vars

\* the document has been executed to its end, the two sections have
\* different point estimates and the second interval is a proper one
C17_Witness ==
    /\ op = "notebook" /\ pc = "done" /\ kind = "Mean"
    /\ MeanDifference # ProportionDifference
    /\ di = MeanDifference
    /\ FLt(lcb, di) /\ FLt(di, ucb)

\* the BMI observations of a sex: its rows with a BMI
Observations(g) ==
    {i \in DOMAIN da : da[i].RIAGENDRx = g /\ da[i].BMXBMI # NaN}

(* C18: the size used as n in the standard error of the mean of a sex is   *)
(* the number of BMI observations of that sex: records without a BMI are   *)
(* not counted.                                                            *)
C18_SizeIsObservations ==
    (op = "notebook" /\ pc = "cell21") =>
        /\ ta["Female"].size = Cardinality(Observations("Female"))
        /\ ta["Male"].size = Cardinality(Observations("Male"))
        /\ sem_female =
              FDiv(ta["Female"].std,
                   FSqrt(FromInt(Cardinality(Observations("Female")))))
        /\ sem_male =
              FDiv(ta["Male"].std,
                   FSqrt(FromInt(Cardinality(Observations("Male")))))

\* the records that answered 1 or 2 and have sex 1 or 2, by their codes
CompleteRecords(sexes, answers) ==
    {i \in DOMAIN da : da[i].RIAGENDR \in sexes /\ da[i].SMQ020 \in answers}

SexCode(g) == IF g = "Male" THEN FromInt(1) ELSE FromInt(2)

AnswerCode(a) == IF a = "smoke" THEN FromInt(1) ELSE FromInt(2)

TotalOf(g) == IF g \in DOMAIN ct THEN ct[g].Total ELSE 0

(* C19: the cross-tab counts exactly the records with both a smoking       *)
(* status and a sex: each in one cell, the others in none; Total is        *)
(* nosmoke plus smoke, and the Totals add up to the number of complete     *)
(* records.                                                                *)
C19_CrosstabCounts ==
    (op = "notebook" /\ pc = "cell8") =>
        /\ DOMAIN ct \subseteq {"Female", "Male"}
        /\ \A g \in DOMAIN ct :
              /\ \A a \in {"nosmoke", "smoke"} :
                    ct[g][a] = Cardinality(CompleteRecords({SexCode(g)},
                                                           {AnswerCode(a)}))
              /\ ct[g].Total = ct[g].nosmoke + ct[g].smoke
        /\ TotalOf("Female") + TotalOf("Male")
              = Cardinality(CompleteRecords({FromInt(1), FromInt(2)},
                                            {FromInt(1), FromInt(2)}))

\* the cross-tab of four records, one without a smoking status and one
\* without a sex
C19_Witness ==
    /\ op = "notebook" /\ pc = "cell8"
    /\ Len(da) = 4
    /\ DOMAIN ct = {"Female", "Male"}
    /\ \E i \in DOMAIN da : da[i].SMQ020x = "nan" /\ da[i].RIAGENDRx # "nan"
    /\ \E i \in DOMAIN da : da[i].RIAGENDRx = "nan" /\ da[i].SMQ020x # "nan"
    /\ TotalOf("Female") + TotalOf("Male") = 2

(* C20: the recode maps 1 to smoke, 2 to nosmoke and 7 and 9 to missing in *)
(* every record; every value of SMQ020x is one of the three, and the       *)
(* number of records and the column SMQ020 are unchanged.                  *)
C20_Recode ==
    [][pc = "cell3" =>
          /\ Len(da') = Len(da)
          /\ \A i \in DOMAIN da :
                /\ da'[i].SMQ020 = da[i].SMQ020
                /\ da'[i].RIAGENDR = da[i].RIAGENDR
                /\ da'[i].BMXBMI = da[i].BMXBMI
                /\ da'[i].SMQ020x \in {"smoke", "nosmoke", "nan"}
                /\ da[i].SMQ020 = FromInt(1) => da'[i].SMQ020x = "smoke"
                /\ da[i].SMQ020 = FromInt(2) => da'[i].SMQ020x = "nosmoke"
                /\ da[i].SMQ020 \in {FromInt(7), FromInt(9)} =>
                      da'[i].SMQ020x = "nan"
      ]_vars

\* four records, one of each answer, have been recoded
C20_Witness ==
    /\ op = "notebook" /\ pc = "cell5"
    /\ {da[i].SMQ020 : i \in DOMAIN da}
          = {FromInt(1), FromInt(2), FromInt(7), FromInt(9)}
    /\ {da[i].SMQ020x : i \in DOMAIN da} = {"smoke", "nosmoke", "nan"}

----------------------------------------------------------------------------
(* Two sections under way at once *)

\* the cells of the means section
MeanCells == {"cell20", "cell21", "cell22", "cell23"}

(* C15: the operations are pure functions: a call changes neither the      *)
(* summaries nor any other value the caller holds, here the difference     *)
(* and the interval that the proportions section has returned.             *)
C15_Pure ==
    [][(pc \in MeanCells) =>
          (UNCHANGED <<ct, ta, da, coverage, se_female, se_male, se_diff,
                       di, lcb, ucb>>)]_vars

\* the summaries of two calls made side by side: both sexes, samples of
\* MaxCount
ParCtRows == {r \in CtRows : ValidProportion(r) /\ r.Total = MaxCount}

ParTaRows == {r \in TaRows : ValidMean(r) /\ r.size = MaxCount}

\* the proportions section and the means section are both about to start
ParInit ==
    /\ op = "parallel" /\ kind = "Proportion"
    /\ ct \in [{"Female", "Male"} -> ParCtRows]
    /\ ta \in [{"Female", "Male"} -> ParTaRows]
    /\ coverage = NominalCoverage
    /\ da = <<>>
    /\ pc = "cell8"
    /\ di = Unset /\ se_diff = Unset
    /\ se_female = Unset /\ se_male = Unset
    /\ sem_female = Unset /\ sem_male = Unset /\ sem_diff = Unset
    /\ lcb = Unset /\ ucb = Unset
    /\ error = "none"
    /\ prev = NoCall
    /\ other = "cell20"
    /\ NoSampling

\* the kernel turns from one section to the other
Switch ==
    /\ op = "parallel"
    /\ other \notin {"none", "done"}
    /\ pc' = other
    /\ other' = pc
    /\ kind' = IF kind = "Proportion" THEN "Mean" ELSE "Proportion"
    /\ UNCHANGED <<op, ct, ta, coverage, prev, da, sampling, computed, error>>

ParNext ==
    \/ Cell8 \/ Cell9 \/ Cell10 \/ Cell11 \/ Cell12
    \/ Cell20 \/ Cell21 \/ Cell22 \/ Cell23
    \/ Switch

\* the cells of the two sections executed in any interleaving
SpecParallel == ParInit /\ [][ParNext]_vars

(* C16: two calls running in parallel each return the result they return  *)
(* alone, whatever the interleaving of their cells.                        *)
C16_Interleaving ==
    [][/\ (op = "parallel" /\ pc = "cell12") =>
             /\ lcb' = FSub(ProportionDifference, FMul(Z196, se_diff))
             /\ ucb' = FAdd(ProportionDifference, FMul(Z196, se_diff))
       /\ (op = "parallel" /\ pc = "cell23") =>
             /\ lcb' = FSub(MeanDifference, FMul(Z196, sem_diff))
             /\ ucb' = FAdd(MeanDifference, FMul(Z196, sem_diff))
      ]_vars

----------------------------------------------------------------------------
(* The two recorded scenarios, to the decimals of the notebook's output *)

(* The thousandths above cannot show six decimals.  Here a float64 is a    *)
(* sign and a magnitude in units of Base^-FracLimbs (1e-16), the magnitude *)
(* a sequence of digits to the base Base, lowest first, without leading    *)
(* zeros; products, quotients and roots are cut off at the last unit.      *)
(* float64 carries 15 to 17 significant digits, so the two differ by       *)
(* less than 1e-13 on the values of the scenarios.                         *)
Base == 10000

FracLimbs == 4

\* the scenario inputs are drawn with their last decimal moved by up to this
Nearby == 1

RECURSIVE BTrim(_)
BTrim(x) ==
    IF x = <<>> \/ x[Len(x)] # 0 THEN x
    ELSE BTrim(SubSeq(x, 1, Len(x) - 1))

Limb(x, i) == IF i <= Len(x) THEN x[i] ELSE 0

RECURSIVE BFromInt(_)
BFromInt(n) == IF n = 0 THEN <<>> ELSE <<n % Base>> \o BFromInt(n \div Base)

RECURSIVE BAddFrom(_, _, _, _)
BAddFrom(x, y, i, c) ==
    IF i > Len(x) /\ i > Len(y)
    THEN IF c = 0 THEN <<>> ELSE <<c>>
    ELSE LET s == Limb(x, i) + Limb(y, i) + c
         IN  <<s % Base>> \o BAddFrom(x, y, i + 1, s \div Base)

BAdd(x, y) == BAddFrom(x, y, 1, 0)

\* x - y for x >= y
RECURSIVE BSubFrom(_, _, _, _)
BSubFrom(x, y, i, b) ==
    IF i > Len(x) THEN <<>>
    ELSE LET d == Limb(x, i) - Limb(y, i) - b
         IN  IF d < 0 THEN <<d + Base>> \o BSubFrom(x, y, i + 1, 1)
             ELSE <<d>> \o BSubFrom(x, y, i + 1, 0)

BSub(x, y) == BTrim(BSubFrom(x, y, 1, 0))

RECURSIVE BLessAt(_, _, _)
BLessAt(x, y, i) ==
    IF i = 0 THEN FALSE
    ELSE IF x[i] # y[i] THEN x[i] < y[i]
    ELSE BLessAt(x, y, i - 1)

BLess(x, y) ==
    IF Len(x) # Len(y) THEN Len(x) < Len(y) ELSE BLessAt(x, y, Len(x))

BLeq(x, y) == ~BLess(y, x)

\* x * k for a digit k
RECURSIVE BMulSmallFrom(_, _, _, _)
BMulSmallFrom(x, k, i, c) ==
    IF i > Len(x)
    THEN IF c = 0 THEN <<>> ELSE <<c>>
    ELSE LET p == x[i] * k + c
         IN  <<p % Base>> \o BMulSmallFrom(x, k, i + 1, p \div Base)

BMulSmall(x, k) == BTrim(BMulSmallFrom(x, k, 1, 0))

\* x * Base^n
BShift(x, n) == IF x = <<>> THEN <<>> ELSE [i \in 1 .. n |-> 0] \o x

\* x \div Base^n
BDrop(x, n) == IF Len(x) <= n THEN <<>> ELSE SubSeq(x, n + 1, Len(x))

RECURSIVE BMulFrom(_, _, _)
BMulFrom(x, y, i) ==
    IF i > Len(y) THEN <<>>
    ELSE BAdd(BShift(BMulSmall(x, y[i]), i - 1), BMulFrom(x, y, i + 1))

BMul(x, y) == BMulFrom(x, y, 1)

\* x \div k for 0 < k < Base
RECURSIVE BDivSmallFrom(_, _, _, _)
BDivSmallFrom(x, k, i, r) ==
    IF i = 0 THEN <<>>
    ELSE LET cur == r * Base + x[i]
         IN  BDivSmallFrom(x, k, i - 1, cur % k) \o <<cur \div k>>

BDivSmall(x, k) == BTrim(BDivSmallFrom(x, k, Len(x), 0))

\* the digit d at the place k: d * Base^k
Place(d, k) == IF d = 0 THEN <<>> ELSE BShift(<<d>>, k)

\* the largest digit d in lo .. hi with d * b <= rem
RECURSIVE DivDigit(_, _, _, _)
DivDigit(lo, hi, rem, b) ==
    IF lo = hi THEN lo
    ELSE LET mid == (lo + hi + 1) \div 2
         IN  IF BLeq(BMulSmall(b, mid), rem) THEN DivDigit(mid, hi, rem, b)
             ELSE DivDigit(lo, mid - 1, rem, b)

\* long division: the digits of the quotient from the place i down
RECURSIVE BDivFrom(_, _, _, _)
BDivFrom(a, b, i, rem) ==
    IF i = 0 THEN <<>>
    ELSE LET cur == BAdd(BShift(rem, 1), Place(a[i], 0))
             d   == DivDigit(0, Base - 1, cur, b)
         IN  BDivFrom(a, b, i - 1, BSub(cur, BMulSmall(b, d))) \o <<d>>

\* a \div b for b > 0
BDiv(a, b) == BTrim(BDivFrom(a, b, Len(a), <<>>))

\* the largest digit d in lo .. hi with (r + d * Base^k)^2 <= x
RECURSIVE SqrtDigit(_, _, _, _, _)
SqrtDigit(lo, hi, r, k, x) ==
    IF lo = hi THEN lo
    ELSE LET mid  == (lo + hi + 1) \div 2
             root == BAdd(r, Place(mid, k))
         IN  IF BLeq(BMul(root, root), x) THEN SqrtDigit(mid, hi, r, k, x)
             ELSE SqrtDigit(lo, mid - 1, r, k, x)

\* the digits of the root from the place k down
RECURSIVE BSqrtFrom(_, _, _)
BSqrtFrom(r, k, x) ==
    IF k < 0 THEN r
    ELSE BSqrtFrom(BAdd(r, Place(SqrtDigit(0, Base - 1, r, k, x), k)),
                   k - 1, x)

\* the largest r with r * r <= x
BSqrt(x) == BSqrtFrom(<<>>, ((Len(x) + 1) \div 2) - 1, x)

\* the float64 of the integer n divided by 10^k
RECURSIVE BTenth(_, _)
BTenth(x, k) == IF k = 0 THEN x ELSE BTenth(BDivSmall(x, 10), k - 1)

Dec(n, k) ==
    [neg |-> n < 0, m |-> BTenth(BShift(BFromInt(Abs(n)), FracLimbs), k)]

DSigned(neg, m) == [neg |-> neg /\ m # <<>>, m |-> m]

DNeg(a) == DSigned(~a.neg, a.m)

DAdd(a, b) ==
    IF a.neg = b.neg THEN DSigned(a.neg, BAdd(a.m, b.m))
    ELSE IF BLess(a.m, b.m) THEN DSigned(b.neg, BSub(b.m, a.m))
    ELSE DSigned(a.neg, BSub(a.m, b.m))

DSub(a, b) == DAdd(a, DNeg(b))

DMul(a, b) == DSigned(a.neg # b.neg, BDrop(BMul(a.m, b.m), FracLimbs))

\* a division by zero gives nan (0/0) or inf; the scenarios have none
DDiv(a, b) ==
    IF b.m = <<>> THEN (IF a.m = <<>> THEN NaN ELSE Inf(IF a.neg THEN -1 ELSE 1))
    ELSE DSigned(a.neg # b.neg, BDiv(BShift(a.m, FracLimbs), b.m))

\* np.sqrt: nan below zero
DSqrt(a) ==
    IF a.neg THEN NaN ELSE DSigned(FALSE, BSqrt(BShift(a.m, FracLimbs)))

DLess(a, b) ==
    IF a.neg # b.neg THEN a.neg
    ELSE IF a.neg THEN BLess(b.m, a.m) ELSE BLess(a.m, b.m)

\* np.sqrt(p * (1 - p) / n) with n - 1 for n
standard_error_proportion64_n1(p, n) ==
    DSqrt(DDiv(DMul(p, DSub(Dec(1, 0), p)), Dec(n - 1, 0)))

\* np.sqrt(p * (1 - p) / n)
standard_error_proportion64(p, n) ==
    DSqrt(DDiv(DMul(p, DSub(Dec(1, 0), p)), Dec(n, 0)))

\* std / np.sqrt(size) with size - 1 for size
standard_error_mean64_n1(std, size) == DDiv(std, DSqrt(Dec(size - 1, 0)))

\* std / np.sqrt(size)
standard_error_mean64(std, size) == DDiv(std, DSqrt(Dec(size, 0)))

\* np.sqrt(se_a**2 + se_b**2)
pool_standard_errors64(se_a, se_b) ==
    DSqrt(DAdd(DMul(se_a, se_a), DMul(se_b, se_b)))

\* the literal 1.96
Z196_64 == Dec(196, 2)

\* the inputs of the proportions scenario in millionths, and their sizes
ProportionScenario ==
    [Female |-> [smoke_prop |-> 304845, Total |-> 2972],
     Male   |-> [smoke_prop |-> 513258, Total |-> 2753]]

\* the inputs of the means scenario: mean and std in millionths
MeanScenario ==
    [Female |-> [mean |-> 29939946, std |-> 7753319, size |-> 2976],
     Male   |-> [mean |-> 28778072, std |-> 6252568, size |-> 2759]]

Near == -Nearby .. Nearby

ScenarioCt(jf, jm, kf) ==
    [g \in {"Female", "Male"} |->
        [smoke_prop |->
            Dec(ProportionScenario[g].smoke_prop
                    + (IF g = "Female" THEN jf ELSE jm), 6),
         Total |-> ProportionScenario[g].Total
                      + (IF g = "Female" THEN kf ELSE 0)]]

ScenarioTa(jf, jm, kf) ==
    [g \in {"Female", "Male"} |->
        [mean |-> Dec(MeanScenario[g].mean, 6),
         std |-> Dec(MeanScenario[g].std + (IF g = "Female" THEN jf ELSE jm),
                     6),
         size |-> MeanScenario[g].size + (IF g = "Female" THEN kf ELSE 0)]]

ScInit ==
    /\ op = "scenario"
    /\ \/ /\ kind = "Proportion" /\ pc = "cell8"
          /\ ct \in {ScenarioCt(jf, jm, kf) :
                        jf \in Near, jm \in Near, kf \in 0 .. Nearby}
          /\ ta = NoTable
       \/ /\ kind = "Mean" /\ pc = "cell20"
          /\ ct = NoTable
          /\ ta \in {ScenarioTa(jf, jm, kf) :
                        jf \in Near, jm \in Near, kf \in 0 .. Nearby}
    /\ coverage = NominalCoverage
    /\ da = <<>>
    /\ di = Unset /\ se_diff = Unset
    /\ InitComputed

\* di = ct.loc["Male", "smoke_prop"] - ct.loc["Female", "smoke_prop"]
Scenario8 ==
    /\ pc = "cell8"
    /\ di' = DSub(ct["Male"].smoke_prop, ct["Female"].smoke_prop)
    /\ pc' = "cell9"
    /\ UNCHANGED <<inputs, se_female, se_male, se_diff, sem_female, sem_male,
                   sem_diff, lcb, ucb, error>>

\* pf, nf, se_female
Scenario9 ==
    /\ pc = "cell9"
    /\ LET pf == ct["Female"].smoke_prop
           nf == ct["Female"].Total
       IN  se_female' = standard_error_proportion64(pf, nf)
    /\ pc' = "cell10"
    /\ UNCHANGED <<inputs, di, se_male, se_diff, sem_female, sem_male,
                   sem_diff, lcb, ucb, error>>

\* pm, nm, se_male
Scenario10 ==
    /\ pc = "cell10"
    /\ LET pm == ct["Male"].smoke_prop
           nm == ct["Male"].Total
       IN  se_male' = standard_error_proportion64(pm, nm)
    /\ pc' = "cell11"
    /\ UNCHANGED <<inputs, di, se_female, se_diff, sem_female, sem_male,
                   sem_diff, lcb, ucb, error>>

\* se_diff = np.sqrt(se_female**2 + se_male**2)
Scenario11 ==
    /\ pc = "cell11"
    /\ se_diff' = pool_standard_errors64(se_female, se_male)
    /\ pc' = "cell12"
    /\ UNCHANGED <<inputs, di, se_female, se_male, sem_female, sem_male,
                   sem_diff, lcb, ucb, error>>

\* lcb = di - 1.96 * se_diff ; ucb = di + 1.96 * se_diff
Scenario12 ==
    /\ pc = "cell12"
    /\ lcb' = DSub(di, DMul(Z196_64, se_diff))
    /\ ucb' = DAdd(di, DMul(Z196_64, se_diff))
    /\ pc' = "done"
    /\ UNCHANGED <<inputs, di, se_female, se_male, se_diff, sem_female,
                   sem_male, sem_diff, error>>

\* sem_female, sem_male
Scenario20 ==
    /\ pc = "cell20"
    /\ sem_female' =
          standard_error_mean64(ta["Female"].std, ta["Female"].size)
    /\ sem_male' = standard_error_mean64(ta["Male"].std, ta["Male"].size)
    /\ pc' = "cell21"
    /\ UNCHANGED <<inputs, di, se_female, se_male, se_diff, sem_diff, lcb,
                   ucb, error>>

\* sem_diff = np.sqrt(sem_female**2 + sem_male**2)
Scenario21 ==
    /\ pc = "cell21"
    /\ sem_diff' = pool_standard_errors64(sem_female, sem_male)
    /\ pc' = "cell22"
    /\ UNCHANGED <<inputs, di, se_female, se_male, se_diff, sem_female,
                   sem_male, lcb, ucb, error>>

\* di = ta.loc["Female", ("BMXBMI", "mean")] - ta.loc["Male", ("BMXBMI", "mean")]
Scenario22 ==
    /\ pc = "cell22"
    /\ di' = DSub(ta["Female"].mean, ta["Male"].mean)
    /\ pc' = "cell23"
    /\ UNCHANGED <<inputs, se_female, se_male, se_diff, sem_female, sem_male,
                   sem_diff, lcb, ucb, error>>

\* lcb = di - 1.96 * sem_diff ; ucb = di + 1.96 * sem_diff
Scenario23 ==
    /\ pc = "cell23"
    /\ lcb' = DSub(di, DMul(Z196_64, sem_diff))
    /\ ucb' = DAdd(di, DMul(Z196_64, sem_diff))
    /\ pc' = "done"
    /\ UNCHANGED <<inputs, di, se_female, se_male, se_diff, sem_female,
                   sem_male, sem_diff, error>>

ScNext ==
    \/ Scenario8 \/ Scenario9 \/ Scenario10 \/ Scenario11 \/ Scenario12
    \/ Scenario20 \/ Scenario21 \/ Scenario22 \/ Scenario23

SpecScenario == ScInit /\ [][ScNext]_vars

\* x rounded to k decimals is n / 10^k
Shown(x, n, k) ==
    /\ ~DLess(x, DSub(Dec(n, k), Dec(5, k + 1)))
    /\ DLess(x, DAdd(Dec(n, k), Dec(5, k + 1)))

AtProportionScenario ==
    /\ op = "scenario" /\ kind = "Proportion" /\ pc = "done"
    /\ ct = ScenarioCt(0, 0, 0)

AtMeanScenario ==
    /\ op = "scenario" /\ kind = "Mean" /\ pc = "done"
    /\ ta = ScenarioTa(0, 0, 0)

(* C13: for female p = 0.304845, n = 2972 and male p = 0.513258, n = 2753  *)
(* the cells give se_female 0.0084442, se_male 0.0095261, se_diff          *)
(* 0.0127299, the difference 0.208413 and the interval 0.183462 to         *)
(* 0.233364, each rounded to the decimals shown.                           *)
C13_ProportionScenario ==
    AtProportionScenario =>
        /\ Shown(se_female, 84442, 7)
        /\ Shown(se_male, 95261, 7)
        /\ Shown(se_diff, 127299, 7)
        /\ Shown(di, 208413, 6)
        /\ Shown(lcb, 183462, 6)
        /\ Shown(ucb, 233364, 6)

C13_Witness == AtProportionScenario /\ DLess(lcb, di) /\ DLess(di, ucb)

MeanScenarioButLower ==
    /\ Shown(sem_female, 142125, 6)
    /\ Shown(sem_male, 119037, 6)
    /\ Shown(sem_diff, 185390, 6)
    /\ Shown(di, 1161874, 6)
    /\ Shown(ucb, 1525238, 6)

----------------------------------------------------------------------------
(* Pooling on its own *)

\* standard errors handed to the pooling cell: none, the smallest value
\* there is, a few hundredths, and larger ones
PoolErrors ==
    {Num(0), Num(1), Num(SCALE \div 50), Num(SCALE \div 20),
     Num(SCALE \div 10), Num(SCALE \div 2), Num(SCALE), Num(3 * SCALE)}

\* the two standard errors are in the kernel, the pooling cell is next
PoolInit ==
    /\ op = "pool_standard_errors"
    /\ ct = NoTable /\ ta = NoTable
    /\ coverage = NominalCoverage
    /\ da = <<>>
    /\ di = Unset /\ se_diff = Unset /\ sem_diff = Unset
    /\ lcb = Unset /\ ucb = Unset
    /\ error = "none" /\ prev = NoCall /\ other = "none"
    /\ NoSampling
    /\ \/ /\ kind = "Proportion" /\ pc = "cell11"
          /\ se_female \in PoolErrors /\ se_male \in PoolErrors
          /\ sem_female = Unset /\ sem_male = Unset
       \/ /\ kind = "Mean" /\ pc = "cell21"
          /\ sem_female \in PoolErrors /\ sem_male \in PoolErrors
          /\ se_female = Unset /\ se_male = Unset

PoolNext == Cell11 \/ Cell21

SpecPool == PoolInit /\ [][PoolNext]_vars

\* the pooling cell has run: its two arguments and its value
Pooled ==
    IF kind = "Proportion"
    THEN [a |-> se_female, b |-> se_male, value |-> se_diff]
    ELSE [a |-> sem_female, b |-> sem_male, value |-> sem_diff]

(* C21: the pooled standard error is at least as large as each of its two  *)
(* inputs, and strictly larger than each when both are positive.           *)
C21_PooledIsLarger ==
    (op = "pool_standard_errors" /\ pc \in {"cell12", "cell22"}) =>
        /\ FLe(Pooled.a, Pooled.value)
        /\ FLe(Pooled.b, Pooled.value)
        /\ (FLt(Num(0), Pooled.a) /\ FLt(Num(0), Pooled.b)) =>
              FLt(Pooled.a, Pooled.value) /\ FLt(Pooled.b, Pooled.value)

----------------------------------------------------------------------------
(* Random sampling from a finite population *)

\* the letters of the population: 26 in the notebook
PopulationSize == 5

\* the size of a sample: 5 in the notebook
SampleSize == 2

\* for _ in range(5)
Draws == 5

ascii_lowercase ==
    <<"a", "b", "c", "d", "e", "f", "g", "h", "i", "j", "k", "l", "m",
      "n", "o", "p", "q", "r", "s", "t", "u", "v", "w", "x", "y", "z">>

\* the arrays rng.choice may return whatever replace is told: an element
\* may be taken again
choice_replace(a, size, replace) ==
    {[i \in 1 .. size |-> a[s[i]]] : s \in [1 .. size -> DOMAIN a]}

\* the arrays rng.choice(a, size, replace) may return: size elements of a,
\* none taken twice unless replace; the generator decides which
choice(a, size, replace) ==
    {[i \in 1 .. size |-> a[s[i]]] :
        s \in {t \in [1 .. size -> DOMAIN a] :
                  replace \/ \A i, j \in 1 .. size : i # j => t[i] # t[j]}}

SamplingInit ==
    /\ op = "sampling" /\ kind = "Proportion"
    /\ ct = NoTable /\ ta = NoTable
    /\ coverage = NominalCoverage
    /\ da = <<>>
    /\ pc = "cell15"
    /\ di = Unset /\ se_diff = Unset
    /\ InitComputed

\* x = [_ for _ in string.ascii_lowercase]
Cell15 ==
    /\ pc = "cell15"
    /\ letters' = SubSeq(ascii_lowercase, 1, PopulationSize)
    /\ pc' = "cell17"
    /\ UNCHANGED <<op, kind, ct, ta, coverage, prev, da, other, sample,
                   earlier, draws, computed, error>>

\* one turn of the loop: print(rng.choice(x, 5, replace=False))
Cell17 ==
    /\ pc = "cell17"
    /\ draws < Draws
    /\ sample' \in choice(letters, SampleSize, FALSE)
    /\ earlier' = sample
    /\ draws' = draws + 1
    /\ pc' = IF draws + 1 = Draws THEN "done" ELSE "cell17"
    /\ UNCHANGED <<op, kind, ct, ta, coverage, prev, da, other, letters,
                   computed, error>>

SamplingNext == Cell15 \/ Cell17

SpecSampling == SamplingInit /\ [][SamplingNext]_vars

Elements(s) == {s[i] : i \in DOMAIN s}

(* C22: every sample drawn has exactly the sample size of elements, all    *)
(* of them letters of the population and no two of them the same; a draw   *)
(* leaves the population list unchanged, so that a letter of one sample    *)
(* can be drawn again in the next.                                         *)
C22_SimpleRandomSample ==
    [][(pc = "cell17") =>
          /\ Len(sample') = SampleSize
          /\ Elements(sample') \subseteq Elements(letters)
          /\ \A i, j \in DOMAIN sample' : i # j => sample'[i] # sample'[j]
          /\ letters' = letters
          /\ letters = SubSeq(ascii_lowercase, 1, PopulationSize)
      ]_vars

\* all the draws are made, and the last two samples are different arrays
\* with a letter in common
C22_Witness ==
    /\ op = "sampling" /\ pc = "done" /\ draws = Draws
    /\ sample # earlier
    /\ Elements(sample) \cap Elements(earlier) # {}
    /\ Elements(sample) # Elements(earlier)

----------------------------------------------------------------------------
(* The difference taken the other way round *)

SwapInit ==
    /\ coverage = NominalCoverage
    /\ da = <<>>
    /\ InitComputed
    /\ (InitProportion \/ InitMean)

Swapped(t) == [Female |-> t["Male"], Male |-> t["Female"]]

\* the caller keeps the result and runs the section once more on the table
\* with the rows of the two groups exchanged
Swap ==
    /\ pc = "done"
    /\ prev = NoCall
    /\ prev' = [request |-> coverage, result |-> IntervalResult]
    /\ IF kind = "Proportion"
       THEN ct' = Swapped(ct) /\ ta' = ta /\ pc' = "cell8"
       ELSE ta' = Swapped(ta) /\ ct' = ct /\ pc' = "cell20"
    /\ UNCHANGED <<op, kind, coverage, da, other, sampling, computed, error>>

SwapNext ==
    \/ Cell8 \/ Cell9 \/ Cell10 \/ Cell11 \/ Cell12
    \/ Cell20 \/ Cell21 \/ Cell22 \/ Cell23
    \/ Swap

SpecSwap == SwapInit /\ [][SwapNext]_vars

(* C23: with the two groups exchanged the point estimate is negated, the   *)
(* bounds are mirrored, (lo, hi) becoming (-hi, -lo), and the pooled       *)
(* standard error is the same.                                             *)
C23_SwapMirrors ==
    (pc = "done" /\ prev # NoCall) =>
        /\ IntervalResult.point_estimate = FNeg(prev.result.point_estimate)
        /\ IntervalResult.lower_bound = FNeg(prev.result.upper_bound)
        /\ IntervalResult.upper_bound = FNeg(prev.result.lower_bound)
        /\ IntervalResult.standard_error = prev.result.standard_error

\* both runs are made, the difference is not 0 and the interval is a
\* proper one
C23_Witness ==
    /\ pc = "done" /\ prev # NoCall
    /\ FLt(Num(0), di)
    /\ FLt(lcb, ucb)
    /\ prev.result.upper_bound = FNeg(lcb)

----------------------------------------------------------------------------
(* A standard error of 0 *)

\* the standard error the interval cell has used
UsedError == IF kind = "Mean" THEN sem_diff ELSE se_diff

\* the same call has been made at two valid coverages
Recalled ==
    /\ Returned
    /\ prev # NoCall
    /\ ValidCoverage(prev.request)
    /\ ValidCoverage(coverage)

(* C25: when the standard error is 0 the interval is the single point      *)
(* lower_bound = upper_bound = point_estimate, whatever the coverage, and  *)
(* it is a result, not an error.                                           *)
C25_ZeroErrorCollapses ==
    (Returned /\ UsedError = Num(0)) =>
        /\ lcb = di
        /\ ucb = di
        /\ error = "none"
        /\ Recalled =>
              /\ prev.result.lower_bound = prev.result.point_estimate
              /\ prev.result.upper_bound = prev.result.point_estimate

\* a difference of two degenerate proportions, or of two means without
\* dispersion, asked for at two coverages
C25_Witness ==
    /\ Returned /\ UsedError = Num(0) /\ Recalled
    /\ op = "difference_interval"
    /\ di # Num(0)
    /\ di.k = "num"

----------------------------------------------------------------------------
(* The proportions of the cross-tab *)

UnitInterval(p) == FLe(Num(0), p) /\ FLe(p, Num(SCALE))

\* two values that differ by no more than one unit in the last place, the
\* rounding of a quotient
Rounded(a, b) == a.k = "num" /\ b.k = "num" /\ Abs(a.v - b.v) <= 1

\* the rows of the cross-tab once cell 7 has added the proportions
HasProportions ==
    /\ op = "notebook" /\ error = "none"
    /\ pc \in {"cell8", "cell9", "cell10", "cell11", "cell12"}

=============================================================================
